---- MODULE Spec2Model ----
(***************************************************************************)
(* node-telescope: the Telescope class of core/telescope.ts.               *)
(*                                                                         *)
(* The process holds Telescope instances, the process-wide event handlers  *)
(* they register, the mongoose query plugins they apply, the storeEntry    *)
(* promises still pending, the storage backend (entries and its NEW_ENTRY  *)
(* listeners) and the socket.io sockets with the messages emitted on each. *)
(* The storage backend itself (storeEntry / getEntries / getEntry) is not  *)
(* part of telescope.ts; it is modelled from its contract.                 *)
(***************************************************************************)
EXTENDS Integers, Sequences, FiniteSets, TLC

\* ------------------------------------------------------------- bounds
MaxTelescopes == 2      \* Telescope constructions in one process (SpecCapture)
MaxEvents == 1          \* capture events in SpecCapture
MaxSockets == 2         \* socket.io connections
MaxCaptures == 2        \* capture events in SpecPush
MaxWatches == 1         \* GET_INITIAL_ENTRIES requests in SpecPush
MaxRequests == 2        \* client requests in SpecRequests, the first one included
MaxQueries == 2         \* HTTP and live queries in SpecQuery
MaxStored == 3          \* stored entries in SpecPaging
MaxLines == 5           \* lines of the source file in SpecAdapters
MaxLive == 1            \* captures while the viewer is connected (SpecViewer)
MaxFetches == 2         \* fetches the viewer's user causes (SpecViewer)
MaxSetups == 3          \* runs of setupWithExpress on the instance (SpecSetup)

\* ------------------------------------------------------------- types
EntryTypes == {"requests", "exceptions", "queries"}
\* The types the adapters of telescope.ts produce (REQUESTS come from the
\* request middleware).
CapturedTypes == {"exceptions", "queries"}
Sockets == 1..MaxSockets
\* The host's units of work that call into Telescope; "process" stands for the
\* node runtime calling a process-wide handler.
Units == {"u1"}
\* The page numbers and page sizes a client asks for (page 0 is invalid).
Pages == 0..2
PerPages == {1, 2}

\* The runtime environments NODE_ENV names.
Environments == {"development", "production"}

\* TelescopeOptions, the fields the capture paths read.
TelescopeOptions ==
  [watchExceptions : BOOLEAN, watchQueries : BOOLEAN, enableQueryLogging : BOOLEAN,
   enableFileReading : BOOLEAN, fileReadingEnvironments : SUBSET Environments]

\* The options with file reading left out: the constructor's defaults.
CaptureOptions ==
  { o \in TelescopeOptions :
      ~o.enableFileReading /\ o.fileReadingEnvironments = {"development"} }

\* The options of examples/prod-test: every type watched, query logging on.
ExampleOptions ==
  [watchExceptions |-> TRUE, watchQueries |-> TRUE, enableQueryLogging |-> TRUE,
   enableFileReading |-> FALSE, fileReadingEnvironments |-> {"development"}]

VARIABLES
  telescopes,         \* sequence of the options of the constructed instances
  hasConnection,      \* storage.connection is available (MongoStorage)
  uncaughtHandlers,   \* process listeners of 'uncaughtException' (instance ids)
  rejectionHandlers,  \* process listeners of 'unhandledRejection' (instance ids)
  queryPlugins,       \* query plugins applied to the connection (instance ids)
  clock,              \* number of capture events so far (Date.now())
  pendingStores,      \* storeEntry promises not yet settled
  entries,            \* the stored entries, in the order they were stored
  consoleErrors,      \* failures logged by a .catch / catch block
  unhandled,          \* promise rejections or throws that no handler absorbed
  hostPc,             \* each host unit of work's position
  status,             \* each socket: "none", "open" or "closed"
  listeners,          \* storage listeners of NEW_ENTRY, in registration order
  channel,            \* each socket: the messages emitted on it, in order
  watched,            \* each socket: the parameters of its last GET_INITIAL_ENTRIES
  nRequests,          \* client requests received so far
  requests,           \* the client requests received: number -> request
  pendingReads,       \* storage reads (getEntries / getEntry) in flight
  emitted,            \* the entries the storage notified NEW_ENTRY for, in order
  io,                 \* each instance: its socket servers and 'connection' handlers
  routes,             \* registrations of the HTTP entries routes on the app
  nodeEnv,            \* process.env.NODE_ENV ("" when unset)
  sourceFile,         \* the source file a stack frame points at
  clientEntries,      \* useTelescopeEntries: the displayed entries
  clientPagination,   \* useTelescopeEntries: {current, pageSize, total}
  clientSeen,         \* the messages of its channel the browser has handled
  responses           \* the HTTP responses sent, in order

vars ==
  << telescopes, hasConnection, uncaughtHandlers, rejectionHandlers, queryPlugins,
     clock, pendingStores, entries, consoleErrors, unhandled, hostPc, status,
     listeners, channel, watched, nRequests, requests, pendingReads, emitted,
     io, routes, nodeEnv, sourceFile, clientEntries, clientPagination, clientSeen,
     responses >>

captureVars ==
  << telescopes, hasConnection, uncaughtHandlers, rejectionHandlers, queryPlugins,
     clock, pendingStores, consoleErrors, unhandled, hostPc >>

storageVars == << entries, emitted >>

sessionVars == << status, listeners, watched, nRequests, requests, pendingReads >>

setupVars == << io, routes >>

\* What surrounds the instance: the runtime environment, the browser's hook
\* and the HTTP responses.
peerVars ==
  << nodeEnv, sourceFile, clientEntries, clientPagination, clientSeen, responses >>

\* ------------------------------------------------------------- helpers
Range(s) == { s[i] : i \in 1..Len(s) }

\* ------------------------------------------------------------- messages
\* One socket.emit(name, body) on a socket. `req` is the number of the client
\* request it answers (0 for an unsolicited push); `connected` is the
\* socket's connected flag at the time of the emit.
Message(name, body, req, connected) ==
  [name |-> name, body |-> body, req |-> req, connected |-> connected]

ErrorBody(text) == [message |-> text]

Max(a, b) == IF a > b THEN a ELSE b

Min(a, b) == IF a < b THEN a ELSE b

\* ------------------------------------------------------------- strings
\* A string is the sequence of its characters.
Digits == << "0", "1", "2", "3", "4", "5", "6", "7", "8", "9" >>

\* `${n}` / JSON.stringify(n) for a natural number: its decimal digits.
RECURSIVE DecimalString(_)
DecimalString(n) ==
  IF n < 10 THEN << Digits[n + 1] >>
  ELSE DecimalString(n \div 10) \o << Digits[(n % 10) + 1] >>

\* str.substring(from, to) with 0 <= from <= to.
Substring(str, from, to) == SubSeq(str, from + 1, Min(to, Len(str)))

Repeat(ch, n) == [i \in 1..n |-> ch]

RECURSIVE Join(_, _)
Join(parts, sep) ==
  IF parts = << >> THEN << >>
  ELSE IF Len(parts) = 1 THEN parts[1]
  ELSE parts[1] \o sep \o Join(Tail(parts), sep)

\* The values a mongoose operation results in: null, a number, a document
\* {"a":"x..x"} with a text of `size` characters, an array of `size`
\* documents {"a":""}.
Null == [t |-> "null", size |-> 0]

Num(n) == [t |-> "number", size |-> n]

Doc(n) == [t |-> "object", size |-> n]

Arr(n) == [t |-> "array", size |-> n]

\* The truthiness of a value: null and 0 are falsy, objects and arrays are not.
Truthy(v) == IF v.t = "null" THEN FALSE ELSE IF v.t = "number" THEN v.size # 0 ELSE TRUE

\* JSON.stringify(v).
JsonStringify(v) ==
  LET doc(n) == << "{", "\"", "a", "\"", ":", "\"" >> \o Repeat("x", n) \o << "\"", "}" >>
  IN IF v.t = "null" THEN << "n", "u", "l", "l" >>
     ELSE IF v.t = "number" THEN DecimalString(v.size)
     ELSE IF v.t = "object" THEN doc(v.size)
     ELSE << "[" >> \o Join(Repeat(doc(0), v.size), << "," >>) \o << "]" >>

\* ------------------------------------------------------------- storage backend
\* What an entry carries besides its type and time: the line of the fault
\* and the source context (exceptions), the result preview (queries).
NoContext == [defined |-> FALSE, lines |-> {}]

NoPreview == [defined |-> FALSE, text |-> << >>]

NoData == [line |-> 0, context |-> NoContext, result |-> NoPreview]

\* The entry as stored: the id is assigned at storage time.
StoredEntry(p, id) ==
  [id |-> id, type |-> p.type, ts |-> p.ts, msg |-> p.msg,
   line |-> p.line, context |-> p.context, result |-> p.result]

\* Entries of one type, in stored order (every type when type = "all").
RECURSIVE FilterType(_, _)
FilterType(es, type) ==
  IF es = << >> THEN << >>
  ELSE IF type = "all" \/ Head(es).type = type
       THEN << Head(es) >> \o FilterType(Tail(es), type)
       ELSE FilterType(Tail(es), type)

\* e sorts before f under sort {timestamp: -1}; the later stored first on a tie.
Newer(e, f) == e.ts > f.ts \/ (e.ts = f.ts /\ e.id > f.id)

RECURSIVE SortDesc(_)
SortDesc(S) ==
  IF S = {} THEN << >>
  ELSE LET top == CHOOSE e \in S : \A f \in S \ {e} : Newer(e, f)
       IN << top >> \o SortDesc(S \ {top})

Reverse(q) == [i \in 1..Len(q) |-> q[Len(q) + 1 - i]]

\* getEntries(filter) on success: the entries of filter.type, sorted by
\* timestamp in the direction filter.sort (-1 descending, 1 ascending), sliced
\* to [perPage * (page - 1), perPage * page), with the total of the matches.
GetEntries(es, filter) ==
  LET desc == SortDesc(Range(FilterType(es, filter.type)))
      all == IF filter.sort = -1 THEN desc ELSE Reverse(desc)
      from == filter.perPage * (filter.page - 1) + 1
      to == Min(filter.perPage * filter.page, Len(all))
  IN [entries |-> IF from > to THEN << >> ELSE SubSeq(all, from, to),
      pagination |-> [currentPage |-> filter.page, perPage |-> filter.perPage,
                      total |-> Len(all)]]

\* getEntries rejects these with InvalidArgument.
ValidPaging(page, perPage) == page >= 1 /\ perPage >= 1

\* A page or perPage the request leaves out, and a type it leaves out.
Undefined == -1

UndefinedType == "undefined"

\* The page size taken when the request names none.
DefaultPerPage == 20

\* The defaulting in front of getEntries, which telescope.ts leaves to the
\* storage: no type means every type, no sort means timestamp descending, no
\* page / perPage means 1 / 20.
StorageFilter(f) ==
  [page |-> IF f.page = Undefined THEN 1 ELSE f.page,
   perPage |-> IF f.perPage = Undefined THEN DefaultPerPage ELSE f.perPage,
   sort |-> IF f.sort = Undefined THEN -1 ELSE f.sort,
   type |-> IF f.type = UndefinedType THEN "all" ELSE f.type]

\* getEntry(id): the entry, or NoEntry when the id is absent.
NoEntry == [id |-> 0]

GetEntryById(es, id) ==
  IF \E i \in 1..Len(es) : es[i].id = id
  THEN es[CHOOSE i \in 1..Len(es) : es[i].id = id]
  ELSE NoEntry

\* ------------------------------------------------------------- live distribution
\* Mutant of OnNewEntry: the push is queued ahead of the earlier ones.
OnNewEntryPrepend(ch, s, entry) ==
  << Message("NEW_ENTRY", entry, 0, status[s] = "open") >> \o ch

\* The storage listener of handleSocketConnection: socket.emit(NEW_ENTRY, entry).
OnNewEntry(ch, s, entry) ==
  Append(ch, Message("NEW_ENTRY", entry, 0, status[s] = "open"))

\* EventEmitter.emit: every registered listener runs, in registration order.
RECURSIVE Notify(_, _, _)
Notify(ls, ch, entry) ==
  IF ls = << >> THEN ch
  ELSE Notify(Tail(ls),
              [ch EXCEPT ![Head(ls)] = OnNewEntry(ch[Head(ls)], Head(ls), entry)],
              entry)

\* ------------------------------------------------------------- construction
\* initialize -> setupExceptionLogging: one more process listener per event.
SetupExceptionLogging(hs, t, o) ==
  IF o.watchExceptions THEN Append(hs, t) ELSE hs

\* initialize -> setupQueryLogging: the plugin is applied only with query
\* logging enabled, QUERIES watched and a connection at hand.
SetupQueryLogging(ps, t, o, conn) ==
  IF o.enableQueryLogging
  THEN (IF o.enableQueryLogging /\ o.watchQueries
        THEN (IF conn THEN Append(ps, t) ELSE ps)
        ELSE ps)
  ELSE ps

\* An instance before setupWithExpress ran: this.io is null.
NoIo == [servers |-> 0, handlers |-> 0]

\* Mutant of SetupSocketServer: the `if (!this.io)` check is missing.
SetupSocketServerUnguarded(i) ==
  [servers |-> i.servers + 1, handlers |-> i.handlers + 1]

\* setupWithExpress, the live-channel part: the socket server is created, and
\* setupSocketIO registers its 'connection' handler, only while this.io is null.
SetupSocketServer(i) ==
  IF i.servers = 0 THEN [servers |-> 1, handlers |-> 1] ELSE i

\* new Telescope(options): throws before any registration when storage, app
\* or server is not provided; otherwise setupWithExpress, then initialize.
NewTelescope(o, provided) ==
  /\ provided
  /\ LET t == Len(telescopes) + 1
     IN /\ telescopes' = Append(telescopes, o)
        /\ io' = Append(io, SetupSocketServer(NoIo))
        /\ routes' = routes + 1
        /\ queryPlugins' = SetupQueryLogging(queryPlugins, t, o, hasConnection)
        /\ uncaughtHandlers' = SetupExceptionLogging(uncaughtHandlers, t, o)
        /\ rejectionHandlers' = SetupExceptionLogging(rejectionHandlers, t, o)
  /\ UNCHANGED << hasConnection, clock, pendingStores, consoleErrors, unhandled, hostPc >>
  /\ UNCHANGED << storageVars, sessionVars, channel >>
  /\ UNCHANGED peerVars

\* The host calls telescope.setupWithExpress() again on instance t: the
\* middleware and the routes are registered once more.
SetupWithExpress(t) ==
  /\ t \in 1..Len(telescopes)
  /\ io' = [io EXCEPT ![t] = SetupSocketServer(@)]
  /\ routes' = routes + 1
  /\ UNCHANGED << captureVars, storageVars, sessionVars, channel, peerVars >>

\* ------------------------------------------------------------- capture adapters
\* storage.storeEntry(entry) in flight: the entry (msg is the error's message
\* or the query's text), the instance that made it and the unit of work that
\* triggered it.
PendingStore(type, ts, msg, t, caller, data) ==
  [type |-> type, ts |-> ts, msg |-> msg, by |-> t, caller |-> caller,
   line |-> data.line, context |-> data.context, result |-> data.result]

\* What is handed to logException: an Error whose first stack frame names a
\* file and a line, an Error without such a frame, or a value that is no Error.
ErrorAt(k, line) == [k |-> k, kind |-> "frame", line |-> line]

ErrorNoFrame(k) == [k |-> k, kind |-> "noframe", line |-> 0]

NotAnError(k) == [k |-> k, kind |-> "value", line |-> 0]

\* Mutant of ShouldReadFile: the runtime environment is not looked at.
ShouldReadFileAnyEnv(o, env) == o.enableFileReading

\* shouldReadFile(): file reading enabled and NODE_ENV (development when
\* unset) in fileReadingEnvironments.
ShouldReadFile(o, env) ==
  /\ o.enableFileReading
  /\ (IF env = "" THEN "development" ELSE env) \in o.fileReadingEnvironments

\* sanitizeCodeSnippet(line).
SanitizeCodeSnippet(line) == [sanitized |-> line]

\* Mutant of GetFileContext: the window ends one line below the faulting line.
GetFileContextOneBelow(o, env, file, hasPath, lineNumber) ==
  IF ~ShouldReadFile(o, env) \/ ~hasPath \/ lineNumber = 0 THEN NoContext
  ELSE IF ~file.readable THEN NoContext
  ELSE LET start == Max(0, lineNumber - 3)
           end == Min(Len(file.lines), lineNumber + 1)
       IN [defined |-> TRUE,
           lines |-> { << DecimalString(i + 1), SanitizeCodeSnippet(file.lines[i + 1]) >> :
                         i \in start..(end - 1) }]

\* getFileContext(filePath, lineNumber): undefined when reading is off, the
\* path or the line is missing or the read throws; else the lines with the
\* 0-based indices [max(0, line - 3), min(length, line + 2)), each keyed by
\* `${i + 1}`. An object is the set of its key / value pairs.
GetFileContext(o, env, file, hasPath, lineNumber) ==
  IF ~ShouldReadFile(o, env) \/ ~hasPath \/ lineNumber = 0 THEN NoContext
  ELSE IF ~file.readable THEN NoContext
  ELSE LET start == Max(0, lineNumber - 3)
           end == Min(Len(file.lines), lineNumber + 2)
       IN [defined |-> TRUE,
           lines |-> { << DecimalString(i + 1), SanitizeCodeSnippet(file.lines[i + 1]) >> :
                         i \in start..(end - 1) }]

\* errorInfo of logException: line and context of an Error (the context only
\* when shouldReadFile()), neither for another value.
ErrorInfo(o, err) ==
  IF err.kind = "value" THEN NoData
  ELSE [line |-> IF err.kind = "frame" THEN err.line ELSE 0,
        context |-> IF ShouldReadFile(o, nodeEnv)
                    THEN GetFileContext(o, nodeEnv, sourceFile, err.kind = "frame", err.line)
                    ELSE NoContext,
        result |-> NoPreview]

\* Mutant of LogException: the watch-set check is missing.
LogExceptionUnguarded(t, err, ts, caller) ==
  { PendingStore("exceptions", ts, err.k, t, caller, ErrorInfo(telescopes[t], err)) }

\* logException(error) of instance t: the storeEntry calls it makes.
LogException(t, err, ts, caller) ==
  IF telescopes[t].watchExceptions
  THEN { PendingStore("exceptions", ts, err.k, t, caller, ErrorInfo(telescopes[t], err)) }
  ELSE {}

\* The mongoose operations the host runs: the method and what it results in
\* (for save: the document's toObject()).
QueryOperations ==
  << [method |-> "findOne", result |-> Null],
     [method |-> "countDocuments", result |-> Num(0)],
     [method |-> "find", result |-> Arr(0)],
     [method |-> "find", result |-> Arr(25)],
     [method |-> "findOne", result |-> Doc(192)],
     [method |-> "save", result |-> Doc(193)],
     [method |-> "save", result |-> Doc(2)] >>

\* The character budget of a result preview.
PreviewBudget == 200

\* Mutant of ResultPreview: the serialized result is not cut.
ResultPreviewUncut(op) ==
  IF op.method = "save" \/ Truthy(op.result)
  THEN [defined |-> TRUE, text |-> JsonStringify(op.result)]
  ELSE NoPreview

\* data.result of the query entry: JSON.stringify(...).substring(0, 200); the
\* generic hook leaves it undefined for a falsy result.
ResultPreview(op) ==
  IF op.method = "save" \/ Truthy(op.result)
  THEN [defined |-> TRUE, text |-> Substring(JsonStringify(op.result), 0, PreviewBudget)]
  ELSE NoPreview

\* The post hooks of the plugin instance t applied, after operation k of
\* QueryOperations: one storeEntry call.
PostHook(t, ts, caller, k) ==
  { PendingStore("queries", ts, k, t, caller,
                 [line |-> 0, context |-> NoContext,
                  result |-> ResultPreview(QueryOperations[k])]) }

\* Mutant of CallerAfterCapture: the adapter awaits the storeEntry promise.
CallerAwaitsStore(stores) == IF stores = {} THEN "returned" ELSE "awaiting"

\* Where the caller of a capture adapter stands once the adapter has run: the
\* adapters start storeEntry and return without awaiting it.
CallerAfterCapture(stores) == "returned"

CanCall(u) == hostPc[u] \in {"ready", "returned", "progressed"}

\* A unit of work hands an error to telescope.logException.
HostLogException(u, t, err) ==
  /\ CanCall(u)
  /\ t \in 1..Len(telescopes)
  /\ clock' = clock + 1
  /\ LET stores == LogException(t, err, clock + 1, u)
     IN /\ pendingStores' = pendingStores \cup stores
        /\ hostPc' = [hostPc EXCEPT ![u] = CallerAfterCapture(stores)]
  /\ UNCHANGED << telescopes, hasConnection, uncaughtHandlers, rejectionHandlers,
                  queryPlugins, consoleErrors, unhandled >>
  /\ UNCHANGED << storageVars, sessionVars, channel >>
  /\ UNCHANGED << peerVars, setupVars >>

\* A unit of work runs a mongoose operation: the post hook of every applied
\* plugin fires.
HostQuery(u, k) ==
  /\ CanCall(u)
  /\ clock' = clock + 1
  /\ LET stores == UNION { PostHook(t, clock + 1, u, k) : t \in Range(queryPlugins) }
     IN /\ pendingStores' = pendingStores \cup stores
        /\ hostPc' = [hostPc EXCEPT ![u] = CallerAfterCapture(stores)]
  /\ UNCHANGED << telescopes, hasConnection, uncaughtHandlers, rejectionHandlers,
                  queryPlugins, consoleErrors, unhandled >>
  /\ UNCHANGED << storageVars, sessionVars, channel >>
  /\ UNCHANGED << peerVars, setupVars >>

\* The unit of work goes on with its own code after the adapter returned.
HostProgress(u) ==
  /\ hostPc[u] = "returned"
  /\ hostPc' = [hostPc EXCEPT ![u] = "progressed"]
  /\ UNCHANGED << telescopes, hasConnection, uncaughtHandlers, rejectionHandlers,
                  queryPlugins, clock, pendingStores, consoleErrors, unhandled >>
  /\ UNCHANGED << storageVars, sessionVars, channel >>
  /\ UNCHANGED << peerVars, setupVars >>

\* The process emits 'uncaughtException': every registered handler runs and
\* calls its instance's logException. (With no handler registered node ends
\* the process.)
ProcessUncaughtException ==
  /\ uncaughtHandlers # << >>
  /\ clock' = clock + 1
  /\ pendingStores' = pendingStores \cup
       UNION { LogException(t, ErrorNoFrame(clock + 1), clock + 1, "process") :
                 t \in Range(uncaughtHandlers) }
  /\ UNCHANGED << telescopes, hasConnection, uncaughtHandlers, rejectionHandlers,
                  queryPlugins, consoleErrors, unhandled, hostPc >>
  /\ UNCHANGED << storageVars, sessionVars, channel >>
  /\ UNCHANGED << peerVars, setupVars >>

\* The process emits 'unhandledRejection': both branches call logException
\* with an Error (the reason, or new Error(String(reason))).
ProcessUnhandledRejection ==
  /\ rejectionHandlers # << >>
  /\ clock' = clock + 1
  /\ pendingStores' = pendingStores \cup
       UNION { LogException(t, ErrorNoFrame(clock + 1), clock + 1, "process") :
                 t \in Range(rejectionHandlers) }
  /\ UNCHANGED << telescopes, hasConnection, uncaughtHandlers, rejectionHandlers,
                  queryPlugins, consoleErrors, unhandled, hostPc >>
  /\ UNCHANGED << storageVars, sessionVars, channel >>
  /\ UNCHANGED << peerVars, setupVars >>

\* Mutant of CatchStoreError: the promise has no .catch.
CatchStoreErrorMissing(log, un, p) == [log |-> log, un |-> un + 1]

\* .catch(storageError => console.error(...)) on the storeEntry promise.
CatchStoreError(log, un, p) ==
  [log |-> IF p.type = "exceptions" THEN [log EXCEPT !.exception = @ + 1]
           ELSE [log EXCEPT !.query = @ + 1],
   un |-> un]

\* storeEntry succeeds: the entry is persisted with a fresh id and NEW_ENTRY
\* is emitted to the storage's listeners.
StoreResolve(p) ==
  /\ p \in pendingStores
  /\ pendingStores' = pendingStores \ {p}
  /\ LET e == StoredEntry(p, Len(entries) + 1)
     IN /\ entries' = Append(entries, e)
        /\ emitted' = Append(emitted, e)
        /\ channel' = Notify(listeners, channel, e)
  /\ UNCHANGED << telescopes, hasConnection, uncaughtHandlers, rejectionHandlers,
                  queryPlugins, clock, consoleErrors, unhandled, hostPc >>
  /\ UNCHANGED sessionVars
  /\ UNCHANGED << peerVars, setupVars >>

\* storeEntry rejects: nothing is persisted, no notification is emitted.
StoreReject(p) ==
  /\ p \in pendingStores
  /\ pendingStores' = pendingStores \ {p}
  /\ LET c == CatchStoreError(consoleErrors, unhandled, p)
     IN /\ consoleErrors' = c.log
        /\ unhandled' = c.un
  /\ UNCHANGED << telescopes, hasConnection, uncaughtHandlers, rejectionHandlers,
                  queryPlugins, clock, hostPc >>
  /\ UNCHANGED << storageVars, sessionVars, channel >>
  /\ UNCHANGED << peerVars, setupVars >>

\* ------------------------------------------------------------- live sessions
\* A client connects to the socket server of instance 1: every 'connection'
\* handler of setupSocketIO runs handleSocketConnection(socket), which
\* registers the socket's request handlers and one storage listener of
\* NEW_ENTRY. Sockets are numbered in the order they connect.
HandleSocketConnection(s) ==
  /\ telescopes # << >>
  /\ status[s] = "none"
  /\ \A r \in Sockets : r < s => status[r] # "none"
  /\ status' = [status EXCEPT ![s] = "open"]
  /\ listeners' = listeners \o [h \in 1..io[1].handlers |-> s]
  /\ UNCHANGED << watched, nRequests, requests, pendingReads, channel >>
  /\ UNCHANGED << captureVars, storageVars >>
  /\ UNCHANGED << peerVars, setupVars >>

\* The client's channel closes. handleSocketConnection registers no
\* 'disconnect' handler: nothing of the session is taken down.
Disconnect(s) ==
  /\ status[s] = "open"
  /\ status' = [status EXCEPT ![s] = "closed"]
  /\ UNCHANGED << listeners, watched, nRequests, requests, pendingReads, channel >>
  /\ UNCHANGED << captureVars, storageVars >>
  /\ UNCHANGED << peerVars, setupVars >>

\* The session a socket is in: Connected (NoWatch) or Watching(type, page, perPage).
NoWatch == [type |-> "none", page |-> 0, perPage |-> 0]

Watching(type, page, perPage) == [type |-> type, page |-> page, perPage |-> perPage]

Request(kind, s, type, page, perPage, id) ==
  [kind |-> kind, s |-> s, type |-> type, page |-> page, perPage |-> perPage, id |-> id]

Read(n, state, body) == [req |-> n, state |-> state, body |-> body]

\* Mutant of SendInitialEntriesFilter: the first page is asked for, whatever
\* the page requested.
SendInitialEntriesFirstPage(q) ==
  [page |-> 1, perPage |-> q.perPage, sort |-> -1, type |-> q.type]

\* Mutant of SendInitialEntriesFilter: the sort direction is ascending.
SendInitialEntriesAscending(q) ==
  [page |-> q.page, perPage |-> q.perPage, sort |-> 1, type |-> q.type]

\* The filter sendInitialEntries hands to storage.getEntries.
SendInitialEntriesFilter(q) ==
  [page |-> q.page, perPage |-> q.perPage, sort |-> -1, type |-> q.type]

\* socket.on(GET_INITIAL_ENTRIES) -> sendInitialEntries(params), up to the
\* await of storage.getEntries: the read in flight holds the filter handed over.
OnGetInitialEntries(s, type, page, perPage) ==
  /\ nRequests' = nRequests + 1
  /\ requests' = Append(requests, Request("initial", s, type, page, perPage, 0))
  /\ pendingReads' = pendingReads \cup
       { Read(nRequests + 1, "reading",
              SendInitialEntriesFilter(Request("initial", s, type, page, perPage, 0))) }
  /\ watched' = [watched EXCEPT ![s] = Watching(type, page, perPage)]

GetInitialEntries(s, type, page, perPage) ==
  /\ status[s] = "open"
  /\ OnGetInitialEntries(s, type, page, perPage)
  /\ UNCHANGED << status, listeners, channel >>
  /\ UNCHANGED << captureVars, storageVars >>
  /\ UNCHANGED << peerVars, setupVars >>

\* storage.getEntries settles: the page as of now, or a failure
\* (InvalidArgument for page / perPage below 1, StorageUnavailable at any time).
StorageGetEntries(r, ok) ==
  /\ r \in pendingReads
  /\ r.state = "reading"
  /\ requests[r.req].kind \in {"initial", "http-entries"}
  /\ LET f == StorageFilter(r.body)
     IN IF ok /\ ValidPaging(f.page, f.perPage)
        THEN pendingReads' = (pendingReads \ {r}) \cup
               { Read(r.req, "ok", GetEntries(entries, f)) }
        ELSE pendingReads' = (pendingReads \ {r}) \cup { Read(r.req, "failed", NoEntry) }
  /\ UNCHANGED << status, listeners, watched, nRequests, requests, channel >>
  /\ UNCHANGED << captureVars, storageVars >>
  /\ UNCHANGED << peerVars, setupVars >>

\* sendInitialEntries after the await: the messages it emits on its socket.
InitialEntriesReply(r, connected) ==
  IF r.state = "ok"
  THEN << Message("INITIAL_ENTRIES", r.body, r.req, connected) >>
  ELSE << Message("error", ErrorBody("Failed to fetch initial entries"), r.req, connected) >>

\* The catch blocks of the socket handlers: console.error / logger.error.
CatchReadError(log, un) ==
  [log |-> [log EXCEPT !.read = @ + 1], un |-> un]

SendInitialEntries(r) ==
  /\ r \in pendingReads
  /\ r.state \in {"ok", "failed"}
  /\ requests[r.req].kind = "initial"
  /\ pendingReads' = pendingReads \ {r}
  /\ LET s == requests[r.req].s
     IN channel' = [channel EXCEPT ![s] = @ \o InitialEntriesReply(r, status[s] = "open")]
  /\ LET c == IF r.state = "failed" THEN CatchReadError(consoleErrors, unhandled)
              ELSE [log |-> consoleErrors, un |-> unhandled]
     IN /\ consoleErrors' = c.log
        /\ unhandled' = c.un
  /\ UNCHANGED << telescopes, hasConnection, uncaughtHandlers, rejectionHandlers,
                  queryPlugins, clock, pendingStores, hostPc >>
  /\ UNCHANGED << status, listeners, watched, nRequests, requests >>
  /\ UNCHANGED storageVars
  /\ UNCHANGED << peerVars, setupVars >>

\* socket.on(GET_ENTRY_DETAILS), up to the await of storage.getEntry.
GetEntryDetails(s, id) ==
  /\ status[s] = "open"
  /\ nRequests' = nRequests + 1
  /\ requests' = Append(requests, Request("details", s, "all", 0, 0, id))
  /\ pendingReads' = pendingReads \cup { Read(nRequests + 1, "reading", NoEntry) }
  /\ UNCHANGED << status, listeners, watched, channel >>
  /\ UNCHANGED << captureVars, storageVars >>
  /\ UNCHANGED << peerVars, setupVars >>

\* storage.getEntry settles: the entry, absence, or a failure.
StorageGetEntry(r, ok) ==
  /\ r \in pendingReads
  /\ r.state = "reading"
  /\ requests[r.req].kind \in {"details", "http-entry"}
  /\ LET e == GetEntryById(entries, requests[r.req].id)
     IN pendingReads' = (pendingReads \ {r}) \cup
          { IF ~ok THEN Read(r.req, "failed", NoEntry)
            ELSE IF e = NoEntry THEN Read(r.req, "absent", NoEntry)
            ELSE Read(r.req, "ok", e) }
  /\ UNCHANGED << status, listeners, watched, nRequests, requests, channel >>
  /\ UNCHANGED << captureVars, storageVars >>
  /\ UNCHANGED << peerVars, setupVars >>

\* Mutant of EntryDetailsReply: the `if (entry)` check is missing.
EntryDetailsReplyUnchecked(r, connected) ==
  IF r.state \in {"ok", "absent"}
  THEN << Message("ENTRY_DETAILS", r.body, r.req, connected) >>
  ELSE << Message("error", ErrorBody("Failed to fetch entry details"), r.req, connected) >>

\* The GET_ENTRY_DETAILS handler after the await: the messages it emits.
EntryDetailsReply(r, connected) ==
  IF r.state = "ok"
  THEN << Message("ENTRY_DETAILS", r.body, r.req, connected) >>
  ELSE IF r.state = "absent"
  THEN << Message("error", ErrorBody("Entry not found"), r.req, connected) >>
  ELSE << Message("error", ErrorBody("Failed to fetch entry details"), r.req, connected) >>

SendEntryDetails(r) ==
  /\ r \in pendingReads
  /\ r.state \in {"ok", "absent", "failed"}
  /\ requests[r.req].kind = "details"
  /\ pendingReads' = pendingReads \ {r}
  /\ LET s == requests[r.req].s
     IN channel' = [channel EXCEPT ![s] = @ \o EntryDetailsReply(r, status[s] = "open")]
  /\ LET c == IF r.state = "failed" THEN CatchReadError(consoleErrors, unhandled)
              ELSE [log |-> consoleErrors, un |-> unhandled]
     IN /\ consoleErrors' = c.log
        /\ unhandled' = c.un
  /\ UNCHANGED << telescopes, hasConnection, uncaughtHandlers, rejectionHandlers,
                  queryPlugins, clock, pendingStores, hostPc >>
  /\ UNCHANGED << status, listeners, watched, nRequests, requests >>
  /\ UNCHANGED storageVars
  /\ UNCHANGED << peerVars, setupVars >>

\* ------------------------------------------------------------- browser hook
\* useTelescopeEntries(socket, entryType) on socket 1: the entry type of the
\* page the dashboard shows.
ViewedType == "exceptions"

\* The hook's state: what it displays and its pagination.
View(es, pagination) == [entries |-> es, pagination |-> pagination]

\* socket.on(INITIAL_ENTRIES): the snapshot replaces the list and the pagination.
ClientOnInitialEntries(data) ==
  View(data.entries,
       [current |-> data.pagination.currentPage,
        pageSize |-> data.pagination.perPage,
        total |-> data.pagination.total])

\* prevEntries.slice(0, -1): all but the last.
SliceButLast(es) == IF es = << >> THEN << >> ELSE SubSeq(es, 1, Len(es) - 1)

\* socket.on(NEW_ENTRY): an entry of the hook's type is put in front of all
\* but the last displayed entry when page 1 is shown, and counted.
ClientOnNewEntry(es, pagination, entry) ==
  IF entry.type = ViewedType
  THEN View(IF pagination.current = 1 THEN << entry >> \o SliceButLast(es) ELSE es,
            [pagination EXCEPT !.total = @ + 1])
  ELSE View(es, pagination)

\* fetchEntries(page, pageSize) with the socket connected: GET_INITIAL_ENTRIES
\* goes out and the server takes it up.
FetchEntries(page, pageSize) ==
  /\ status[1] = "open"
  /\ GetInitialEntries(1, ViewedType, page, pageSize)

\* The hook is mounted: its effect fetches the page of its initial state.
ClientMount ==
  /\ nRequests = 0
  /\ FetchEntries(clientPagination.current, clientPagination.pageSize)

\* handlePageChange(page, pageSize).
HandlePageChange(page, pageSize) ==
  /\ nRequests > 0
  /\ FetchEntries(page, pageSize)

\* The browser handles the next message of its channel. A snapshot that
\* changes pagination.current or pagination.pageSize makes the effect run
\* again, which fetches that page once more; 'error' has no handler.
ClientReceive ==
  /\ clientSeen < Len(channel[1])
  /\ clientSeen' = clientSeen + 1
  /\ LET m == channel[1][clientSeen + 1]
         v == IF m.name = "INITIAL_ENTRIES" THEN ClientOnInitialEntries(m.body)
              ELSE IF m.name = "NEW_ENTRY"
                   THEN ClientOnNewEntry(clientEntries, clientPagination, m.body)
                   ELSE View(clientEntries, clientPagination)
     IN /\ clientEntries' = v.entries
        /\ clientPagination' = v.pagination
        /\ IF /\ status[1] = "open"
              /\ \/ v.pagination.current # clientPagination.current
                 \/ v.pagination.pageSize # clientPagination.pageSize
           THEN OnGetInitialEntries(1, ViewedType, v.pagination.current, v.pagination.pageSize)
           ELSE UNCHANGED << nRequests, requests, pendingReads, watched >>
  /\ UNCHANGED << status, listeners, channel, nodeEnv, sourceFile, responses >>
  /\ UNCHANGED << captureVars, storageVars, setupVars >>

\* ------------------------------------------------------------- HTTP routes
\* One response sent on the HTTP surface, in answer to request n.
Response(n, code, body) == [req |-> n, code |-> code, body |-> body]

HttpError(text) == [error |-> text]

\* The filter getEntries(req, res) hands to storage.getEntries: req.query as
\* it came.
HttpEntriesFilter(q) ==
  [page |-> q.page, perPage |-> q.perPage, sort |-> Undefined, type |-> q.type]

\* GET {prefix}/api/entries?type&page&perPage -> getEntries(req, res), up to
\* the await of storage.getEntries.
HttpGetEntries(type, page, perPage) ==
  /\ routes >= 1
  /\ nRequests' = nRequests + 1
  /\ requests' = Append(requests, Request("http-entries", 0, type, page, perPage, 0))
  /\ pendingReads' = pendingReads \cup
       { Read(nRequests + 1, "reading",
              HttpEntriesFilter(Request("http-entries", 0, type, page, perPage, 0))) }
  /\ UNCHANGED << status, listeners, watched, channel >>
  /\ UNCHANGED << captureVars, storageVars >>
  /\ UNCHANGED << peerVars, setupVars >>

\* getEntries(req, res) after the await: res.json(entries), or 500.
HttpEntriesResponse(r) ==
  IF r.state = "ok" THEN Response(r.req, 200, r.body)
  ELSE Response(r.req, 500, HttpError("Failed to retrieve entries"))

HttpSendEntries(r) ==
  /\ r \in pendingReads
  /\ r.state \in {"ok", "failed"}
  /\ requests[r.req].kind = "http-entries"
  /\ pendingReads' = pendingReads \ {r}
  /\ responses' = Append(responses, HttpEntriesResponse(r))
  /\ LET c == IF r.state = "failed" THEN CatchReadError(consoleErrors, unhandled)
              ELSE [log |-> consoleErrors, un |-> unhandled]
     IN /\ consoleErrors' = c.log
        /\ unhandled' = c.un
  /\ UNCHANGED << telescopes, hasConnection, uncaughtHandlers, rejectionHandlers,
                  queryPlugins, clock, pendingStores, hostPc >>
  /\ UNCHANGED << status, listeners, watched, nRequests, requests, channel >>
  /\ UNCHANGED << storageVars, setupVars >>
  /\ UNCHANGED << nodeEnv, sourceFile, clientEntries, clientPagination, clientSeen >>

\* GET {prefix}/api/entries/:id -> getEntry(req, res), up to the await of
\* storage.getEntry.
HttpGetEntry(id) ==
  /\ routes >= 1
  /\ nRequests' = nRequests + 1
  /\ requests' = Append(requests, Request("http-entry", 0, "all", 0, 0, id))
  /\ pendingReads' = pendingReads \cup { Read(nRequests + 1, "reading", NoEntry) }
  /\ UNCHANGED << status, listeners, watched, channel >>
  /\ UNCHANGED << captureVars, storageVars >>
  /\ UNCHANGED << peerVars, setupVars >>

\* Mutant of HttpEntryResponse: the `if (entry)` check is missing.
HttpEntryResponseUnchecked(r) ==
  IF r.state \in {"ok", "absent"} THEN Response(r.req, 200, r.body)
  ELSE Response(r.req, 500, HttpError("Failed to retrieve entry"))

\* getEntry(req, res) after the await: res.json(entry), 404 or 500.
HttpEntryResponse(r) ==
  IF r.state = "ok" THEN Response(r.req, 200, r.body)
  ELSE IF r.state = "absent" THEN Response(r.req, 404, HttpError("Entry not found"))
  ELSE Response(r.req, 500, HttpError("Failed to retrieve entry"))

HttpSendEntry(r) ==
  /\ r \in pendingReads
  /\ r.state \in {"ok", "absent", "failed"}
  /\ requests[r.req].kind = "http-entry"
  /\ pendingReads' = pendingReads \ {r}
  /\ responses' = Append(responses, HttpEntryResponse(r))
  /\ LET c == IF r.state = "failed" THEN CatchReadError(consoleErrors, unhandled)
              ELSE [log |-> consoleErrors, un |-> unhandled]
     IN /\ consoleErrors' = c.log
        /\ unhandled' = c.un
  /\ UNCHANGED << telescopes, hasConnection, uncaughtHandlers, rejectionHandlers,
                  queryPlugins, clock, pendingStores, hostPc >>
  /\ UNCHANGED << status, listeners, watched, nRequests, requests, channel >>
  /\ UNCHANGED << storageVars, setupVars >>
  /\ UNCHANGED << nodeEnv, sourceFile, clientEntries, clientPagination, clientSeen >>

\* ------------------------------------------------------------- specifications
NoSessions ==
  /\ status = [s \in Sockets |-> "none"]
  /\ listeners = << >>
  /\ channel = [s \in Sockets |-> << >>]
  /\ watched = [s \in Sockets |-> NoWatch]
  /\ nRequests = 0
  /\ requests = << >>
  /\ pendingReads = {}

NothingCaptured ==
  /\ clock = 0
  /\ pendingStores = {}
  /\ entries = << >>
  /\ emitted = << >>
  /\ consoleErrors = [exception |-> 0, query |-> 0, read |-> 0]
  /\ unhandled = 0
  /\ hostPc = [u \in Units |-> "ready"]

\* The file a stack frame points at when none can be read.
NoFile == [readable |-> FALSE, lines |-> << >>]

\* NODE_ENV unset and no source file at hand.
DefaultRuntime ==
  /\ nodeEnv = ""
  /\ sourceFile = NoFile

\* The page size useTelescopeEntries starts with.
DefaultPageSize == 20

\* The browser's hook as mounted, and no HTTP response sent.
NoPeers ==
  /\ clientEntries = << >>
  /\ clientPagination = [current |-> 1, pageSize |-> DefaultPageSize, total |-> 0]
  /\ clientSeen = 0
  /\ responses = << >>

\* The process before any Telescope is constructed.
InitCapture ==
  /\ telescopes = << >>
  /\ io = << >>
  /\ routes = 0
  /\ DefaultRuntime
  /\ NoPeers
  /\ hasConnection \in BOOLEAN
  /\ uncaughtHandlers = << >>
  /\ rejectionHandlers = << >>
  /\ queryPlugins = << >>
  /\ NothingCaptured
  /\ NoSessions

NextCapture ==
  \/ /\ Len(telescopes) < MaxTelescopes
     /\ \E o \in CaptureOptions, provided \in BOOLEAN : NewTelescope(o, provided)
  \/ /\ clock < MaxEvents
     /\ \E u \in Units, t \in 1..MaxTelescopes :
          HostLogException(u, t, ErrorNoFrame(clock + 1))
  \/ /\ clock < MaxEvents
     /\ \E u \in Units : HostQuery(u, 1)
  \/ \E u \in Units : HostProgress(u)
  \/ /\ clock < MaxEvents
     /\ ProcessUncaughtException
  \/ /\ clock < MaxEvents
     /\ ProcessUnhandledRejection
  \/ \E p \in pendingStores : StoreResolve(p)
  \/ \E p \in pendingStores : StoreReject(p)

\* Capture: constructions, the adapters and the process-wide hooks.
SpecCapture == InitCapture /\ [][NextCapture]_vars

\* The process of examples/prod-test after new Telescope(ExampleOptions).
ExampleProcess ==
  /\ telescopes = << ExampleOptions >>
  /\ hasConnection = TRUE
  /\ uncaughtHandlers = SetupExceptionLogging(<< >>, 1, ExampleOptions)
  /\ rejectionHandlers = SetupExceptionLogging(<< >>, 1, ExampleOptions)
  /\ queryPlugins = SetupQueryLogging(<< >>, 1, ExampleOptions, TRUE)
  /\ io = << SetupSocketServer(NoIo) >>
  /\ routes = 1

InitPush ==
  /\ ExampleProcess
  /\ DefaultRuntime
  /\ NoPeers
  /\ NothingCaptured
  /\ NoSessions

\* The snapshot reads a GET_INITIAL_ENTRIES starts stay in flight here: their
\* replies are the subject of SpecRequests.
NextPush ==
  \/ /\ clock < MaxCaptures
     /\ \E u \in Units : HostLogException(u, 1, ErrorNoFrame(clock + 1))
  \/ /\ clock < MaxCaptures
     /\ \E u \in Units : HostQuery(u, 1)
  \/ \E p \in pendingStores : StoreResolve(p)
  \/ \E p \in pendingStores : StoreReject(p)
  \/ \E s \in Sockets : HandleSocketConnection(s)
  \/ \E s \in Sockets : Disconnect(s)
  \/ /\ nRequests < MaxWatches
     /\ \E s \in Sockets, type \in CapturedTypes : GetInitialEntries(s, type, 1, 1)

\* Live distribution: captures, sessions and the pushes of stored entries.
SpecPush == InitPush /\ [][NextPush]_vars

\* The storage SpecRequests starts from: three captures (two errors, then a
\* query) whose stores completed out of order, so that stored order and
\* timestamp order differ.
SettledStorage ==
  << StoredEntry(PendingStore("exceptions", 2, 2, 1, "u1", NoData), 1),
     StoredEntry(PendingStore("queries", 3, 1, 1, "u1", NoData), 2),
     StoredEntry(PendingStore("exceptions", 1, 1, 1, "u1", NoData), 3) >>

\* The ids a client asks the details of: the stored ones and an unknown one.
EntryIds == 1..(Len(SettledStorage) + 1)

\* The request session 1 made before SpecRequests starts, and its answer.
FirstRequest == Request("initial", 1, "exceptions", 1, 1, 0)

FirstReply ==
  InitialEntriesReply(
    Read(1, "ok", GetEntries(SettledStorage,
                             StorageFilter(SendInitialEntriesFilter(FirstRequest)))), TRUE)

\* The storage has settled; session 1 connected afterwards, asked for page 1
\* of the exceptions and got it: it is Watching. The other sockets are yet
\* to connect.
InitRequests ==
  /\ ExampleProcess
  /\ DefaultRuntime
  /\ NoPeers
  /\ entries = SettledStorage
  /\ emitted = entries
  /\ clock = Len(entries)
  /\ pendingStores = {}
  /\ consoleErrors = [exception |-> 0, query |-> 0, read |-> 0]
  /\ unhandled = 0
  /\ hostPc = [u \in Units |-> "returned"]
  /\ status = [s \in Sockets |-> IF s = 1 THEN "open" ELSE "none"]
  /\ listeners = << 1 >>
  /\ channel = [s \in Sockets |-> IF s = 1 THEN FirstReply ELSE << >>]
  /\ watched = [s \in Sockets |-> IF s = 1 THEN Watching("exceptions", 1, 1) ELSE NoWatch]
  /\ nRequests = 1
  /\ requests = << FirstRequest >>
  /\ pendingReads = {}

NextRequests ==
  \/ \E s \in Sockets : HandleSocketConnection(s)
  \/ \E s \in Sockets : Disconnect(s)
  \/ /\ nRequests < MaxRequests
     /\ \E s \in Sockets, type \in EntryTypes, page \in Pages, perPage \in PerPages :
          GetInitialEntries(s, type, page, perPage)
  \/ \E r \in pendingReads, ok \in BOOLEAN : StorageGetEntries(r, ok)
  \/ \E r \in pendingReads : SendInitialEntries(r)
  \/ /\ nRequests < MaxRequests
     /\ \E s \in Sockets, id \in EntryIds : GetEntryDetails(s, id)
  \/ \E r \in pendingReads, ok \in BOOLEAN : StorageGetEntry(r, ok)
  \/ \E r \in pendingReads : SendEntryDetails(r)

\* The request / reply protocol of a session over a settled storage.
SpecRequests == InitRequests /\ [][NextRequests]_vars

\* The parameters a query leaves out or gives.
OptionalTypes == {UndefinedType, "exceptions"}

OptionalPages == {Undefined, 1}

OptionalPerPages == {Undefined, 2}

\* The storage has settled and session 1 is connected; nothing was asked yet.
InitQuery ==
  /\ ExampleProcess
  /\ DefaultRuntime
  /\ NoPeers
  /\ entries = SettledStorage
  /\ emitted = entries
  /\ clock = Len(entries)
  /\ pendingStores = {}
  /\ consoleErrors = [exception |-> 0, query |-> 0, read |-> 0]
  /\ unhandled = 0
  /\ hostPc = [u \in Units |-> "returned"]
  /\ status = [s \in Sockets |-> IF s = 1 THEN "open" ELSE "none"]
  /\ listeners = << 1 >>
  /\ channel = [s \in Sockets |-> << >>]
  /\ watched = [s \in Sockets |-> NoWatch]
  /\ nRequests = 0
  /\ requests = << >>
  /\ pendingReads = {}

NextQuery ==
  \/ /\ nRequests < MaxQueries
     /\ \E id \in EntryIds : HttpGetEntry(id)
  \/ /\ nRequests < MaxQueries
     /\ \E type \in OptionalTypes, page \in OptionalPages, perPage \in OptionalPerPages :
          HttpGetEntries(type, page, perPage)
  \/ /\ nRequests < MaxQueries
     /\ \E type \in OptionalTypes, page \in OptionalPages, perPage \in OptionalPerPages :
          GetInitialEntries(1, type, page, perPage)
  \/ \E r \in pendingReads, ok \in BOOLEAN : StorageGetEntries(r, ok)
  \/ \E r \in pendingReads, ok \in BOOLEAN : StorageGetEntry(r, ok)
  \/ \E r \in pendingReads : HttpSendEntry(r)
  \/ \E r \in pendingReads : HttpSendEntries(r)
  \/ \E r \in pendingReads : SendInitialEntries(r)

\* The Query Service: the HTTP routes and the live snapshot request over a
\* settled storage.
SpecQuery == InitQuery /\ [][NextQuery]_vars

\* The stored entry sets paging is checked over: up to MaxStored entries of
\* either captured type, timestamps out of stored order and with ties.
StoredSequences ==
  UNION { { [i \in 1..n |->
                StoredEntry(PendingStore(f[i][1], f[i][2], 1, 1, "u1", NoData), i)] :
              f \in [1..n -> CapturedTypes \X (1..2)] } : n \in 0..MaxStored }

\* Some entry set is stored and stays fixed; session 1 is connected.
InitPaging ==
  /\ ExampleProcess
  /\ DefaultRuntime
  /\ NoPeers
  /\ entries \in StoredSequences
  /\ emitted = entries
  /\ clock = Len(entries)
  /\ pendingStores = {}
  /\ consoleErrors = [exception |-> 0, query |-> 0, read |-> 0]
  /\ unhandled = 0
  /\ hostPc = [u \in Units |-> "returned"]
  /\ status = [s \in Sockets |-> IF s = 1 THEN "open" ELSE "none"]
  /\ listeners = << 1 >>
  /\ channel = [s \in Sockets |-> << >>]
  /\ watched = [s \in Sockets |-> NoWatch]
  /\ nRequests = 0
  /\ requests = << >>
  /\ pendingReads = {}

\* The client asks for page 1 of a type, then, each answer received, for the
\* next page of the same filter, one page past the last stored entry at most.
NextPaging ==
  \/ /\ nRequests = 0
     /\ \E type \in EntryTypes, perPage \in PerPages : GetInitialEntries(1, type, 1, perPage)
  \/ /\ nRequests \in 1..MaxStored
     /\ pendingReads = {}
     /\ GetInitialEntries(1, watched[1].type, watched[1].page + 1, watched[1].perPage)
  \/ \E r \in pendingReads, ok \in BOOLEAN : StorageGetEntries(r, ok)
  \/ \E r \in pendingReads : SendInitialEntries(r)

\* Paging through a fixed stored entry set with a fixed filter.
SpecPaging == InitPaging /\ [][NextPaging]_vars

\* The source files a stack frame points at: unreadable, or of 1..MaxLines
\* lines (split('\n') yields one line at least).
SourceFiles ==
  {NoFile} \cup { [readable |-> TRUE, lines |-> [i \in 1..n |-> i]] : n \in 1..MaxLines }

\* The values handed to logException as error k.
ThrownValues(k) ==
  { ErrorAt(k, line) : line \in 0..(MaxLines + 1) } \cup { ErrorNoFrame(k), NotAnError(k) }

\* One instance constructed with any options, in any runtime environment,
\* next to any source file.
InitAdapters ==
  /\ \E o \in TelescopeOptions :
       /\ telescopes = << o >>
       /\ uncaughtHandlers = SetupExceptionLogging(<< >>, 1, o)
       /\ rejectionHandlers = SetupExceptionLogging(<< >>, 1, o)
       /\ queryPlugins = SetupQueryLogging(<< >>, 1, o, TRUE)
  /\ hasConnection = TRUE
  /\ io = << SetupSocketServer(NoIo) >>
  /\ routes = 1
  /\ nodeEnv \in {""} \cup Environments
  /\ sourceFile \in SourceFiles
  /\ NothingCaptured
  /\ NoSessions
  /\ NoPeers

NextAdapters ==
  \/ /\ clock < MaxEvents
     /\ \E u \in Units, err \in ThrownValues(clock + 1) : HostLogException(u, 1, err)
  \/ /\ clock < MaxEvents
     /\ \E u \in Units, k \in 1..Len(QueryOperations) : HostQuery(u, k)
  \/ \E p \in pendingStores : StoreResolve(p)
  \/ \E p \in pendingStores : StoreReject(p)

\* The exception adapter and the query adapter, by what they hand to storeEntry.
SpecAdapters == InitAdapters /\ [][NextAdapters]_vars

\* The storage has settled, the dashboard's socket is connected and its hook
\* is about to be mounted.
InitViewer ==
  /\ ExampleProcess
  /\ DefaultRuntime
  /\ NoPeers
  /\ entries = SettledStorage
  /\ emitted = entries
  /\ clock = Len(entries)
  /\ pendingStores = {}
  /\ consoleErrors = [exception |-> 0, query |-> 0, read |-> 0]
  /\ unhandled = 0
  /\ hostPc = [u \in Units |-> "returned"]
  /\ status = [s \in Sockets |-> IF s = 1 THEN "open" ELSE "none"]
  /\ listeners = << 1 >>
  /\ channel = [s \in Sockets |-> << >>]
  /\ watched = [s \in Sockets |-> NoWatch]
  /\ nRequests = 0
  /\ requests = << >>
  /\ pendingReads = {}

NextViewer ==
  \/ ClientMount
  \/ /\ nRequests < MaxFetches
     /\ \E page \in 1..2 : HandlePageChange(page, 2)
  \/ /\ nRequests <= MaxFetches
     /\ ClientReceive
  \/ /\ clock < Len(SettledStorage) + MaxLive
     /\ \E u \in Units : HostLogException(u, 1, ErrorNoFrame(clock + 1))
  \/ /\ clock < Len(SettledStorage) + MaxLive
     /\ \E u \in Units : HostQuery(u, 1)
  \/ \E p \in pendingStores : StoreResolve(p)
  \/ \E r \in pendingReads, ok \in BOOLEAN : StorageGetEntries(r, ok)
  \/ \E r \in pendingReads : SendInitialEntries(r)

\* The dashboard: one session, its browser hook, and captures going on.
SpecViewer == InitViewer /\ [][NextViewer]_vars

\* The process of examples/prod-test, nothing captured and nobody connected.
InitSetup ==
  /\ ExampleProcess
  /\ DefaultRuntime
  /\ NoPeers
  /\ NothingCaptured
  /\ NoSessions

NextSetup ==
  \/ /\ routes < MaxSetups
     /\ SetupWithExpress(1)
  \/ \E s \in Sockets : HandleSocketConnection(s)
  \/ \E s \in Sockets : Disconnect(s)
  \/ /\ clock < MaxEvents
     /\ \E u \in Units : HostLogException(u, 1, ErrorNoFrame(clock + 1))
  \/ /\ clock < MaxEvents
     /\ \E u \in Units : HostQuery(u, 1)
  \/ \E p \in pendingStores : StoreResolve(p)
  \/ \E p \in pendingStores : StoreReject(p)

\* setupWithExpress called again on a running instance.
SpecSetup == InitSetup /\ [][NextSetup]_vars

\* ------------------------------------------------------------- properties
\* The NEW_ENTRY pushes emitted on socket s, in order: the entries they carry.
Pushes(s) ==
  LET ms == SelectSeq(channel[s], LAMBDA m : m.name = "NEW_ENTRY")
  IN [i \in 1..Len(ms) |-> ms[i].body]

\* The messages emitted on socket s in answer to request n.
Replies(s, n) == { i \in 1..Len(channel[s]) : channel[s][i].req = n }

\* The messages this step emits on socket s.
Emitted(s) == SubSeq(channel'[s], Len(channel[s]) + 1, Len(channel'[s]))

\* C1 (as claimed): storing an entry pushes exactly one NEW_ENTRY carrying it
\* to every open session watching the entry's type, and nothing to an open
\* session watching another type.
C1_LiveFiltering ==
  [][\A s \in Sockets :
       (status[s] = "open" /\ watched[s] # NoWatch /\ Len(entries') = Len(entries) + 1)
       => LET e == entries'[Len(entries')]
          IN IF e.type = watched[s].type
             THEN Emitted(s) = << Message("NEW_ENTRY", e, 0, TRUE) >>
             ELSE Emitted(s) = << >>]_vars

\* C2 (as claimed): a closed session has no storage listener left, no
\* NEW_ENTRY is emitted to a closed channel, and there are never more storage
\* listeners than open sessions.
C2_DisconnectCleanup ==
  /\ \A s \in Sockets : status[s] = "closed" => s \notin Range(listeners)
  /\ \A s \in Sockets : \A i \in 1..Len(channel[s]) :
       channel[s][i].name = "NEW_ENTRY" => channel[s][i].connected
  /\ Len(listeners) <= Cardinality({ s \in Sockets : status[s] = "open" })

\* C3 (as claimed): a session that is open and has issued no
\* GET_INITIAL_ENTRIES has received no NEW_ENTRY push.
C3_ConnectedReceivesNothing ==
  \A s \in Sockets :
    (status[s] = "open" /\ watched[s] = NoWatch) => Pushes(s) = << >>

\* The exception entries stored for error k.
StoredFor(k) ==
  { i \in 1..Len(entries) : entries[i].type = "exceptions" /\ entries[i].msg = k }

\* C4 (as claimed): at most one uncaughtException handler and at most one
\* unhandledRejection handler are installed, and no error is stored twice.
C4_OneHookPerEvent ==
  /\ Len(uncaughtHandlers) <= 1
  /\ Len(rejectionHandlers) <= 1
  /\ \A k \in 1..clock : Cardinality(StoredFor(k)) <= 1

\* This step is the rejection of a storeEntry promise that logException made.
ExceptionStoreRejected ==
  \E p \in pendingStores :
    /\ p.type = "exceptions"
    /\ pendingStores' = pendingStores \ {p}
    /\ entries' = entries

\* C5: when the storeEntry of an exception entry rejects, the failure is
\* logged once and absorbed: nothing is left unhandled, the caller's position
\* is untouched, and nothing is emitted to any session.
C5_CaptureIsolation ==
  /\ [](unhandled = 0)
  /\ [][ExceptionStoreRejected
         => /\ consoleErrors'.exception = consoleErrors.exception + 1
            /\ unhandled' = unhandled
            /\ hostPc' = hostPc
            /\ channel' = channel]_vars

\* C5 witness: the store of an exception entry failed while a session was open.
C5_Witness ==
  /\ consoleErrors.exception >= 1
  /\ \E s \in Sockets : status[s] = "open"
  /\ \A u \in Units : hostPc[u] = "returned"

\* C6: whenever a storeEntry started by a capture adapter is pending, the unit
\* of work that triggered the capture is not waiting for it: it has gone on
\* with its own code or can do so right now.
C6_FireAndForget ==
  \A p \in pendingStores :
    p.caller \in Units =>
      /\ hostPc[p.caller] # "awaiting"
      /\ hostPc[p.caller] = "progressed" \/ ENABLED HostProgress(p.caller)

\* C6 witness: a unit of work has gone on while the store it triggered is
\* still pending.
C6_Witness ==
  \E p \in pendingStores : p.caller \in Units /\ hostPc[p.caller] = "progressed"

\* C7: an instance that does not watch EXCEPTIONS has no process-wide handler
\* and no exception store; an instance with QUERIES unwatched or query logging
\* disabled has no query plugin and no query store.
C7_WatchSetGating ==
  \A t \in 1..Len(telescopes) :
    /\ ~telescopes[t].watchExceptions =>
         /\ t \notin Range(uncaughtHandlers)
         /\ t \notin Range(rejectionHandlers)
         /\ \A p \in pendingStores : ~(p.by = t /\ p.type = "exceptions")
    /\ ~(telescopes[t].watchQueries /\ telescopes[t].enableQueryLogging) =>
         /\ t \notin Range(queryPlugins)
         /\ \A p \in pendingStores : ~(p.by = t /\ p.type = "queries")

\* C7 witness: logException ran on the only instance, which watches QUERIES
\* but not EXCEPTIONS (a query would have left a store behind), and nothing
\* was stored, nothing is pending and nothing failed.
C7_Witness ==
  /\ telescopes = << [ExampleOptions EXCEPT !.watchExceptions = FALSE] >>
  /\ queryPlugins = << 1 >>
  /\ clock = 1
  /\ \A u \in Units : hostPc[u] = "returned"
  /\ pendingStores = {}
  /\ entries = << >>
  /\ consoleErrors = [exception |-> 0, query |-> 0, read |-> 0]

\* C8: on every socket the NEW_ENTRY pushes carry entries the storage
\* notified, in the order the storage notified them.
C8_DeliveryOrder ==
  \A s \in Sockets :
    LET ps == Pushes(s)
    IN /\ \A i \in 1..Len(ps) : ps[i].id \in 1..Len(emitted) /\ emitted[ps[i].id] = ps[i]
       /\ \A i, j \in 1..Len(ps) : i < j => ps[i].id < ps[j].id

\* C8 witness: two sessions are connected and one has received two pushes
\* whose stores completed in the reverse of their capture order.
C8_Witness ==
  /\ \A s \in 1..2 : status[s] = "open"
  /\ \E s \in Sockets : Len(Pushes(s)) >= 2 /\ Pushes(s)[1].ts > Pushes(s)[2].ts

\* The stored entries of the type request q asks for.
Matching(q) == { e \in Range(entries) : e.type = q.type }

\* The matching entries that sort before e under timestamp descending.
NewerThan(q, e) == { f \in Matching(q) : f.ts > e.ts }

\* body is the page request q asks for: the matching entries, newest first,
\* that have page-1 full pages of newer ones before them, with the pagination.
IsPageOf(q, body) ==
  /\ body.pagination =
       [currentPage |-> q.page, perPage |-> q.perPage, total |-> Cardinality(Matching(q))]
  /\ \A i, j \in 1..Len(body.entries) : i < j => body.entries[i].ts > body.entries[j].ts
  /\ Range(body.entries) =
       { e \in Matching(q) :
           /\ Cardinality(NewerThan(q, e)) >= q.perPage * (q.page - 1)
           /\ Cardinality(NewerThan(q, e)) < q.perPage * q.page }

\* The error messages a catch block emits, over all sockets.
FailureReplies ==
  UNION { { << s, i >> : i \in { j \in 1..Len(channel[s]) :
                                  /\ channel[s][j].name = "error"
                                  /\ channel[s][j].body # ErrorBody("Entry not found") } }
          : s \in Sockets }

Answered(n) == \A r \in pendingReads : r.req # n

\* C9: every GET_INITIAL_ENTRIES request is answered at most once while its
\* read is in flight and exactly once after, on the requesting socket only:
\* by INITIAL_ENTRIES carrying the page asked for, newest first, or by the
\* error message; every failure is logged and none is left unhandled.
C9_InitialEntriesAnswer ==
  /\ unhandled = 0
  /\ Cardinality(FailureReplies) = consoleErrors.read
  /\ \A n \in 1..nRequests :
       requests[n].kind = "initial" =>
         LET q == requests[n]
         IN /\ \A s \in Sockets \ {q.s} : Replies(s, n) = {}
            /\ Cardinality(Replies(q.s, n)) = IF Answered(n) THEN 1 ELSE 0
            /\ \A i \in Replies(q.s, n) :
                 LET m == channel[q.s][i]
                 IN \/ /\ m.name = "INITIAL_ENTRIES"
                       /\ ValidPaging(q.page, q.perPage)
                       /\ IsPageOf(q, m.body)
                    \/ /\ m.name = "error"
                       /\ m.body = ErrorBody("Failed to fetch initial entries")

\* C9 witness: the second session asked for page 2 of the exceptions and got
\* the older of the two, while the first session's channel holds its own
\* answer only.
C9_Witness ==
  /\ nRequests = 2
  /\ requests[2] = Request("initial", 2, "exceptions", 2, 1, 0)
  /\ Len(channel[1]) = 1
  /\ \E i \in Replies(2, 2) :
       /\ channel[2][i].name = "INITIAL_ENTRIES"
       /\ channel[2][i].body.entries = << SettledStorage[3] >>

\* This step is the receipt of a GET_ENTRY_DETAILS request, the settling of
\* its read or the emit of its answer.
DetailsStep ==
  \/ nRequests' = nRequests + 1 /\ requests'[nRequests'].kind = "details"
  \/ \E r \in pendingReads : requests[r.req].kind = "details" /\ r \notin pendingReads'

\* C10: every GET_ENTRY_DETAILS request is answered exactly once, on the
\* requesting socket only: by ENTRY_DETAILS carrying the stored entry of that
\* id, or by an error message (the only answer when the id is absent); no
\* step of handling it changes a session's state or a registration.
C10_EntryDetailsAnswer ==
  /\ [](\A n \in 1..nRequests :
          requests[n].kind = "details" =>
            LET q == requests[n]
            IN /\ \A s \in Sockets \ {q.s} : Replies(s, n) = {}
               /\ Cardinality(Replies(q.s, n)) = IF Answered(n) THEN 1 ELSE 0
               /\ \A i \in Replies(q.s, n) :
                    LET m == channel[q.s][i]
                    IN \/ /\ m.name = "ENTRY_DETAILS"
                          /\ m.body \in Range(entries)
                          /\ m.body.id = q.id
                       \/ /\ m.name = "error"
                          /\ m.body = ErrorBody("Entry not found")
                          /\ \A e \in Range(entries) : e.id # q.id
                       \/ /\ m.name = "error"
                          /\ m.body = ErrorBody("Failed to fetch entry details"))
  /\ [][DetailsStep => UNCHANGED << watched, listeners, status >>]_vars

\* C10 witness: the Watching session asked for the details of a stored entry
\* and got them, and is still Watching what it watched.
C10_Witness ==
  /\ nRequests = 2
  /\ requests[2].kind = "details"
  /\ requests[2].s = 1
  /\ watched[1] = Watching("exceptions", 1, 1)
  /\ \E i \in Replies(1, 2) :
       channel[1][i] = Message("ENTRY_DETAILS", SettledStorage[requests[2].id], 2, TRUE)

\* The HTTP responses sent in answer to request n.
ResponsesTo(n) == { i \in 1..Len(responses) : responses[i].req = n }

\* C11: every GET {prefix}/api/entries/:id gets no response while its read is
\* in flight and exactly one after: 200 with the stored entry of that id, 404
\* when the id is absent, or 500 when the storage call failed; the failure is
\* logged and nothing is left unhandled.
C11_HttpEntryLookup ==
  /\ unhandled = 0
  /\ consoleErrors.read >= Cardinality({ i \in 1..Len(responses) : responses[i].code = 500 })
  /\ \A n \in 1..nRequests :
       requests[n].kind = "http-entry" =>
         LET q == requests[n]
         IN /\ Cardinality(ResponsesTo(n)) = IF Answered(n) THEN 1 ELSE 0
            /\ \A i \in ResponsesTo(n) :
                 LET m == responses[i]
                 IN \/ /\ m.code = 200
                       /\ m.body \in Range(entries)
                       /\ m.body.id = q.id
                    \/ /\ m.code = 404
                       /\ m.body = HttpError("Entry not found")
                       /\ \A e \in Range(entries) : e.id # q.id
                    \/ /\ m.code = 500
                       /\ m.body = HttpError("Failed to retrieve entry")

\* C11 witness: an unknown id was answered 404 and a stored one 200.
C11_Witness ==
  /\ \E i \in 1..Len(responses) : responses[i].code = 404
  /\ \E i \in 1..Len(responses) :
       responses[i].code = 200 /\ responses[i].body = SettledStorage[1]

\* C12 (as claimed): the filter handed to storage.getEntries, on the HTTP
\* route and on the live path, has page and perPage defined: a request that
\* leaves them out is delegated with page 1 and perPage 20.
C12_QueryDefaulting ==
  \A r \in pendingReads :
    (r.state = "reading" /\ requests[r.req].kind \in {"initial", "http-entries"}) =>
      LET q == requests[r.req]
      IN /\ r.body.page # Undefined
         /\ r.body.perPage # Undefined
         /\ q.page = Undefined => r.body.page = 1
         /\ q.perPage = Undefined => r.body.perPage = DefaultPerPage

\* The snapshots session 1 received for page k of its filter.
PagesOf(k) ==
  { channel[1][i].body : i \in { j \in 1..Len(channel[1]) :
                                   /\ channel[1][j].name = "INITIAL_ENTRIES"
                                   /\ requests[channel[1][j].req].page = k } }

\* Pages 1..k were all received.
ReceivedUpTo(k) == \A j \in 1..k : PagesOf(j) # {}

RECURSIVE ConcatPages(_)
ConcatPages(k) ==
  IF k = 0 THEN << >>
  ELSE ConcatPages(k - 1) \o (CHOOSE b \in PagesOf(k) : TRUE).entries

RECURSIVE SumPages(_)
SumPages(k) ==
  IF k = 0 THEN 0
  ELSE SumPages(k - 1) + Len((CHOOSE b \in PagesOf(k) : TRUE).entries)

\* C13: with the stored set and the filter fixed, every page reports the
\* total of the matching entries; the pages 1..k received so far, put end to
\* end, hold no entry twice, are sorted by timestamp descending and leave no
\* gap (every matching entry missing is older than all of them); once k
\* pages cover the total, their lengths sum up to it and every matching
\* entry is there.
C13_PaginationConsistency ==
  \A k \in 1..nRequests :
    ReceivedUpTo(k) =>
      LET q == requests[1]
          all == ConcatPages(k)
          total == Cardinality(Matching(q))
      IN /\ \A j \in 1..k : \A b \in PagesOf(j) : b.pagination.total = total
         /\ Len(all) = SumPages(k)
         /\ Len(all) = Min(k * q.perPage, total)
         /\ \A i, j \in 1..Len(all) : i < j => Newer(all[i], all[j])
         /\ Range(all) \subseteq Matching(q)
         /\ \A e \in Matching(q) \ Range(all) : \A i \in 1..Len(all) : Newer(all[i], e)
         /\ k * q.perPage >= total => (SumPages(k) = total /\ Range(all) = Matching(q))

\* C13 witness: three entries of one type are stored and asked for with
\* perPage 2; page 1 came with two, page 2 with the remaining one, total 3.
C13_Witness ==
  /\ Len(entries) = 3
  /\ nRequests >= 2
  /\ requests[1].perPage = 2
  /\ ReceivedUpTo(2)
  /\ Len(ConcatPages(1)) = 2
  /\ Len(ConcatPages(2)) = 3
  /\ \A b \in PagesOf(2) : b.pagination.total = 3

\* The entries handed to storeEntry: those in flight and those stored.
HandedOver(type) ==
  { p \in pendingStores : p.type = type } \cup { e \in Range(entries) : e.type = type }

\* The line numbers the keys of a context name.
WindowOf(ctx) ==
  { j \in 1..Len(sourceFile.lines) : \E kv \in ctx.lines : kv[1] = DecimalString(j) }

\* C14: the context of an exception entry whose faulting line L lies in the
\* file of n lines is keyed by decimal line numbers within [1, n] only, one
\* key per line, each with that line sanitized; the lines form a contiguous
\* window that contains L, starts at max(1, L - 2), ends at min(n, L + 2),
\* and holds five lines when no bound clips it.
C14_ContextWindow ==
  \A p \in HandedOver("exceptions") :
    (p.context.defined /\ p.line \in 1..Len(sourceFile.lines)) =>
      LET n == Len(sourceFile.lines)
          L == p.line
          W == WindowOf(p.context)
      IN /\ p.context.lines =
              { << DecimalString(j), SanitizeCodeSnippet(sourceFile.lines[j]) >> : j \in W }
         /\ Cardinality(p.context.lines) = Cardinality(W)
         /\ L \in W
         /\ \A a, b \in W : \A j \in a..b : j \in W
         /\ \A j \in W : j >= Max(1, L - 2) /\ j <= Min(n, L + 2)
         /\ Max(1, L - 2) \in W
         /\ Min(n, L + 2) \in W
         /\ Cardinality(W) <= 5
         /\ (L - 2 >= 1 /\ L + 2 <= n) => Cardinality(W) = 5

\* C14 witness: line 3 of a file of five lines faulted and the entry carries
\* the five lines "1".."5"; somewhere else the window is clipped.
C14_Witness ==
  \E p \in pendingStores :
    /\ p.type = "exceptions"
    /\ p.line = 3
    /\ Len(sourceFile.lines) = 5
    /\ p.context.defined
    /\ { kv[1] : kv \in p.context.lines } = { << "1" >>, << "2" >>, << "3" >>, << "4" >>, << "5" >> }

\* This step is logException(err) on the instance, which watches EXCEPTIONS.
LogExceptionStep ==
  /\ telescopes[1].watchExceptions
  /\ \E u \in Units, err \in ThrownValues(clock + 1) : HostLogException(u, 1, err)

\* C15: an exception entry carries a context only if enableFileReading is on
\* and the runtime environment (development when NODE_ENV is unset) is in
\* fileReadingEnvironments, and never when the source file cannot be read;
\* whatever the file, logException hands exactly one exception entry to
\* storeEntry, returns to its caller, and nothing is left unhandled.
C15_BestEffortContext ==
  /\ [](\A p \in HandedOver("exceptions") :
          p.context.defined =>
            /\ telescopes[1].enableFileReading
            /\ (IF nodeEnv = "" THEN "development" ELSE nodeEnv)
                 \in telescopes[1].fileReadingEnvironments
            /\ sourceFile.readable)
  /\ [](unhandled = 0)
  /\ [][LogExceptionStep =>
           /\ \E p \in pendingStores' :
                /\ p \notin pendingStores
                /\ pendingStores' = pendingStores \cup {p}
                /\ p.type = "exceptions"
                /\ p.msg = clock'
           /\ \A u \in Units : hostPc'[u] \in {"ready", "returned", "progressed"}]_vars

\* C15 witness: file reading is on and allowed in this environment, an Error
\* with a frame at line 1 was logged, the file could not be read, and the
\* entry was stored without a context.
C15_Witness ==
  /\ telescopes[1].enableFileReading
  /\ ShouldReadFile(telescopes[1], nodeEnv)
  /\ ~sourceFile.readable
  /\ \E e \in Range(entries) : e.type = "exceptions" /\ e.line = 1 /\ ~e.context.defined

\* C16: every query entry handed to storeEntry has a result preview of at
\* most 200 characters that is a prefix of the serialized result of its
\* operation; the generic hook leaves the preview out only for a falsy result.
C16_ResultPreviewBound ==
  \A p \in HandedOver("queries") :
    LET op == QueryOperations[p.msg]
        full == JsonStringify(op.result)
    IN IF p.result.defined
       THEN /\ Len(p.result.text) <= 200
            /\ Len(p.result.text) <= Len(full)
            /\ p.result.text = SubSeq(full, 1, Len(p.result.text))
       ELSE op.method # "save" /\ ~Truthy(op.result)

\* C16 witness: a result of 201 serialized characters was cut to 200.
C16_Witness ==
  \E p \in pendingStores :
    /\ p.type = "queries"
    /\ Len(JsonStringify(QueryOperations[p.msg].result)) = 201
    /\ Len(p.result.text) = 200

\* The hook has applied a snapshot.
SnapshotApplied ==
  \E i \in 1..clientSeen : channel[1][i].name = "INITIAL_ENTRIES"

\* Nothing is on its way to the viewer: no read in flight, every message handled.
ViewerQuiet == pendingReads = {} /\ clientSeen = Len(channel[1])

\* C17 (as claimed): the displayed list never holds an entry id twice, and,
\* with page 1 shown and nothing on its way, it omits no stored entry of the
\* viewed type that is newer than an entry it displays.
C17_NoDuplicateNoLoss ==
  /\ \A i, j \in 1..Len(clientEntries) :
       i # j => clientEntries[i].id # clientEntries[j].id
  /\ (ViewerQuiet /\ SnapshotApplied /\ clientPagination.current = 1) =>
       \A e \in Range(entries) :
         (e.type = ViewedType /\ e \notin Range(clientEntries)) =>
           \A d \in Range(clientEntries) : ~Newer(e, d)

\* The INITIAL_ENTRIES responses on socket 1, in emit order: the numbers of
\* the requests they answer.
AnswerOrder ==
  LET ms == SelectSeq(channel[1], LAMBDA m : m.name = "INITIAL_ENTRIES")
  IN [i \in 1..Len(ms) |-> ms[i].req]

\* C18 (as claimed): the answers to a session's GET_INITIAL_ENTRIES requests
\* are emitted in the order the requests were received, and with nothing on
\* its way the hook shows the page of the latest request answered with a
\* snapshot.
C18_ResponseOrder ==
  /\ \A i, j \in 1..Len(AnswerOrder) : i < j => AnswerOrder[i] < AnswerOrder[j]
  /\ (ViewerQuiet /\ SnapshotApplied) =>
       \A i \in 1..Len(channel[1]) :
         (/\ channel[1][i].name = "INITIAL_ENTRIES"
          /\ \A j \in 1..Len(channel[1]) :
               channel[1][j].name = "INITIAL_ENTRIES" => channel[1][j].req <= channel[1][i].req)
         => /\ clientPagination.current = requests[channel[1][i].req].page
            /\ clientPagination.pageSize = requests[channel[1][i].req].perPage

\* This step is the hook handling a NEW_ENTRY push.
PushHandled ==
  /\ clientSeen' = clientSeen + 1
  /\ channel[1][clientSeen'].name = "NEW_ENTRY"

\* C19 (as claimed): once a snapshot of page 1 is applied the displayed list
\* has length min(total, pageSize); a push of the viewed type adds one to
\* total and drops a displayed entry only from a full page; a push of
\* another type, or one handled on another page, leaves the list as it is.
C19_ClientPageOne ==
  /\ []((SnapshotApplied /\ clientPagination.current = 1) =>
          Len(clientEntries) = Min(clientPagination.total, clientPagination.pageSize))
  /\ [][PushHandled =>
           LET e == channel[1][clientSeen'].body
           IN IF e.type = ViewedType
              THEN /\ clientPagination'.total = clientPagination.total + 1
                   /\ (SnapshotApplied /\ clientPagination.current = 1) =>
                        ((\E d \in Range(clientEntries) : d \notin Range(clientEntries'))
                           => Len(clientEntries) = clientPagination.pageSize)
                   /\ clientPagination.current # 1 => clientEntries' = clientEntries
              ELSE /\ clientEntries' = clientEntries
                   /\ clientPagination' = clientPagination]_vars

\* C20: however often setupWithExpress ran, the instance has exactly one
\* socket server with exactly one 'connection' handler, every socket that
\* connected has exactly one storage listener, and no socket is pushed the
\* same entry twice.
C20_SetupIdempotent ==
  /\ \A t \in 1..Len(telescopes) : io[t] = [servers |-> 1, handlers |-> 1]
  /\ \A s \in Sockets :
       status[s] # "none" =>
         Cardinality({ i \in 1..Len(listeners) : listeners[i] = s }) = 1
  /\ \A s \in Sockets :
       \A i, j \in 1..Len(Pushes(s)) : i # j => Pushes(s)[i].id # Pushes(s)[j].id

\* C20 witness: setupWithExpress ran three times (the constructor's call
\* included), two sockets are connected and each was pushed the one stored
\* entry.
C20_Witness ==
  /\ routes = 3
  /\ \A s \in 1..2 : status[s] = "open" /\ Len(Pushes(s)) = 1
  /\ Len(entries) = 1

====
